---- MODULE Spec2Model ----
(***************************************************************************)
(* Flappy Bevy (src/src/main.rs): the player / session state machine and   *)
(* the obstacle recycler, as the five Update systems plus the physics      *)
(* plugin's PostUpdate step.                                               *)
(*                                                                         *)
(* One frame of the engine is: the five Update systems, each once, in an   *)
(* order the schedule does not fix (main registers them as an unordered    *)
(* tuple), then the physics step.  `ran` holds the systems that have run   *)
(* in the current frame.  Collision events written by the physics step of  *)
(* one frame are read by handle_collision_events in the next frame.        *)
(*                                                                         *)
(* Lengths are world units (integers), times are milliseconds, angles are  *)
(* milliradians.                                                           *)
(***************************************************************************)
EXTENDS Integers, Sequences, FiniteSets, TLC

\* ---------------------------------------------------------------- constants
SCREEN_WIDTH == 400
SCREEN_HEIGHT == 600
PIPES_COUNT == 8
VERTICAL_SPACE_BETWEEN_PIPES == 120
PIPE_SPEED == -120
JUMP_FORCE == 300

\* Collider::cuboid(25.0, 160.0): half extents of a pipe.
PIPE_HALF_Y == 160
\* horizontal distance between consecutive spawn slots (n as f32 * 70.0)
PIPE_SLOT == 70
\* exclusive upper end of the range the gap offset is drawn from
OFFSET_END == -180
\* u8: Health.current and Score.current
U8_MAX == 255

\* ------------------------------------------------------------------- bounds
\* frame time of every frame, in milliseconds (833 ms: a scroll of 100 units)
FrameMs == 833
\* most collision events one physics step emits
MaxEvents == 2
\* most scoring passes of a session of the specification Spec
MaxPasses == 1

\* -------------------------------------------------------------------- state
VARIABLES
    input,                      \* Input<KeyCode>: keys just pressed this frame
    player,                     \* the Player entity's Transform and Velocity
    health,                     \* Health.current of the player
    score,                      \* Score.current of the player
    pipes,                      \* the eight Pipe entities, by spawn index
    physics_pipeline_active,    \* RapierConfiguration.physics_pipeline_active
    collision_events,           \* Events<CollisionEvent> not yet read
    text,                       \* the TextScore section's value
    ran,                        \* Update systems that have run this frame
    crashed,                    \* the process panicked (overflow check)
    frame_start_health          \* history: health when this frame began

vars == <<input, player, health, score, pipes, physics_pipeline_active,
          collision_events, text, ran, crashed, frame_start_health>>

Systems == {"process_player_input", "handle_collision_events",
            "check_player_health", "process_pipes", "update_score"}

KeyCodes == {"Space", "R"}

PipeIndex == 0 .. (PIPES_COUNT - 1)
LowerIndex == {n \in PipeIndex : n % 2 = 0}

\* (a range that starts at the full screen height)
OffsetRange_FullHeight == (-SCREEN_HEIGHT) .. (OFFSET_END - 1)

\* fastrand::i32((-SCREEN_HEIGHT as i32 / 2)..-180): the whole range
OffsetRange == (-(SCREEN_HEIGHT \div 2)) .. (OFFSET_END - 1)

\* --------------------------------------------------------------------- setup
\* One pipe of setup's loop; y_offset is the offset drawn by the last lower
\* pipe (the pipe itself when n is even).
SpawnPipe(n, y_offset) ==
    IF n % 2 = 0
    THEN [pipe_type |-> "DOWN",
          original_x |-> SCREEN_WIDTH \div 2 + n * PIPE_SLOT,
          x |-> SCREEN_WIDTH \div 2 + n * PIPE_SLOT,
          y |-> y_offset]
    ELSE [pipe_type |-> "UP",
          original_x |-> SCREEN_WIDTH \div 2 + (n - 1) * PIPE_SLOT,
          x |-> SCREEN_WIDTH \div 2 + (n - 1) * PIPE_SLOT,
          y |-> y_offset + 2 * PIPE_HALF_Y + VERTICAL_SPACE_BETWEEN_PIPES]

\* draw[n] is the offset drawn in the iteration of the lower pipe n.
SpawnPipes(draw) ==
    [n \in PipeIndex |-> SpawnPipe(n, IF n % 2 = 0 THEN draw[n] ELSE draw[n - 1])]

SpawnPlayer ==
    [pos |-> <<0, 0>>, linvel |-> <<0, 0>>, angvel |-> 0, rotation |-> 0]

setup(offsets, keys) ==
    /\ \E draw \in [LowerIndex -> offsets] : pipes = SpawnPipes(draw)
    /\ player = SpawnPlayer
    /\ health = 1
    /\ score = 0
    /\ text = "0"
    /\ physics_pipeline_active = TRUE
    /\ collision_events = <<>>
    /\ input \in keys
    /\ ran = {}
    /\ crashed = FALSE
    /\ frame_start_health = 1

\* ----------------------------------------------------------- the schedule
\* A system runs once per frame, while the process is alive.
CanRun(sys) == ~crashed /\ sys \notin ran
Done(sys) == ran' = ran \cup {sys} /\ UNCHANGED frame_start_health

\* ------------------------------------------------------ process_player_input
\* (a gate that forgets the health test)
JumpAllowed_IgnoresHealth(p, h) == p.pos[2] < SCREEN_HEIGHT \div 2

\* The jump gate: below the top of the screen, and alive.
JumpAllowed(p, h) == p.pos[2] < SCREEN_HEIGHT \div 2 /\ h > 0

\* (a jump that adds the impulse to the velocity instead of overwriting it)
Jump_AddsImpulse(p, h, keys) ==
    IF "Space" \in keys /\ JumpAllowed(p, h)
    THEN [p EXCEPT !.linvel = <<p.linvel[1], p.linvel[2] + JUMP_FORCE>>]
    ELSE p

\* if input.just_pressed(KeyCode::Space) && ... { linvel = (0, JUMP_FORCE) }
Jump(p, h, keys) ==
    IF "Space" \in keys /\ JumpAllowed(p, h)
    THEN [p EXCEPT !.linvel = <<0, JUMP_FORCE>>]
    ELSE p

\* rotation = from_rotation_z(linvel.y / JUMP_FORCE * 0.5), in milliradians
Tilt(p) == [p EXCEPT !.rotation = (p.linvel[2] * 500) \div JUMP_FORCE]

\* (a restart that forgets the angular velocity)
RestartPlayer_KeepsSpin(p) ==
    [p EXCEPT !.linvel = <<0, 0>>, !.pos = <<0, 0>>, !.rotation = 0]

\* the player's part of the restart block
RestartPlayer(p) ==
    [p EXCEPT !.linvel = <<0, 0>>, !.angvel = 0, !.pos = <<0, 0>>, !.rotation = 0]

\* (a restart that sends every pipe to the first slot)
RestartPipes_ToFirstSlot(ps) ==
    [n \in PipeIndex |-> [ps[n] EXCEPT !.x = SCREEN_WIDTH \div 2]]

\* (a restart that resets the lower pipes only)
RestartPipes_LowerOnly(ps) ==
    [n \in PipeIndex |->
        IF n % 2 = 0 THEN [ps[n] EXCEPT !.x = ps[n].original_x] ELSE ps[n]]

\* the restart block's loop over the pipes: x back to original_x, y kept
RestartPipes(ps) == [n \in PipeIndex |-> [ps[n] EXCEPT !.x = ps[n].original_x]]

\* (a restart that leaves the physics pipeline as it was)
Restart_LeavesFrozen(w) ==
    [w EXCEPT !.pipes = RestartPipes(w.pipes),
              !.player = RestartPlayer(w.player),
              !.health = 1]

\* The restart block, on everything the systems own; it names neither the
\* Score component nor the pipes' y.
Restart(w) ==
    [w EXCEPT !.pipes = RestartPipes(w.pipes),
              !.player = RestartPlayer(w.player),
              !.health = 1,
              !.physics_pipeline_active = TRUE]

\* if input.just_pressed(KeyCode::R) { ... }
OnRestartKey(w, keys) == IF "R" \in keys THEN Restart(w) ELSE w

World ==
    [player |-> player, pipes |-> pipes, health |-> health, score |-> score,
     physics_pipeline_active |-> physics_pipeline_active]

\* The whole function body on the world w with the keys just pressed.
ProcessPlayerInput(w, keys) ==
    OnRestartKey([w EXCEPT !.player = Tilt(Jump(w.player, w.health, keys))], keys)

process_player_input ==
    /\ CanRun("process_player_input")
    /\ LET w == ProcessPlayerInput(World, input)
       IN  /\ player' = w.player
           /\ pipes' = w.pipes
           /\ health' = w.health
           /\ score' = w.score
           /\ physics_pipeline_active' = w.physics_pipeline_active
    /\ Done("process_player_input")
    /\ UNCHANGED <<input, collision_events, text, crashed>>

\* --------------------------------------------------- handle_collision_events
\* (a handler that never compares the entities with the player)
NamesPlayer_Anyone(e) == e.e1 \in {"player", "pipe"} \/ e.e2 \in {"player", "pipe"}

\* e1.index() == player.index() || e2.index() == player.index()
NamesPlayer(e) == e.e1 = "player" \/ e.e2 = "player"

\* a solid Started event naming the player: the else branch's inner if
IsLethal(e) == e.started /\ ~e.sensor /\ NamesPlayer(e)
\* a sensor-flagged Started event naming the player: the first branch
IsPass(e) == e.started /\ e.sensor /\ NamesPlayer(e)

\* _player.2.current += 1 on a u8.  With overflow checks (a debug build) the
\* addition panics at 255; without them (a release build) it wraps.
ScoreIncrement(st, overflow_checks) ==
    IF st.score = U8_MAX
    THEN IF overflow_checks
         THEN [st EXCEPT !.panicked = TRUE]
         ELSE [st EXCEPT !.score = 0]
    ELSE [st EXCEPT !.score = st.score + 1]

\* (a hit that takes one health point off the u8, wrapping)
LethalHit_Decrement(st) ==
    [st EXCEPT !.health = (st.health + U8_MAX) % (U8_MAX + 1)]

\* _player.0.current = 0
LethalHit(st) == [st EXCEPT !.health = 0]

\* The body of the loop for one event; st = [health, score, panicked].
OnCollisionEvent(st, e, overflow_checks) ==
    IF ~e.started
    THEN st
    ELSE IF e.sensor /\ NamesPlayer(e)
         THEN ScoreIncrement(st, overflow_checks)
         ELSE IF NamesPlayer(e) THEN LethalHit(st) ELSE st

\* for collision_event in collision_events.iter() { ... }; a panic ends it.
RECURSIVE DrainEvents(_, _, _)
DrainEvents(st, evs, overflow_checks) ==
    IF evs = <<>> \/ st.panicked
    THEN st
    ELSE DrainEvents(OnCollisionEvent(st, Head(evs), overflow_checks),
                     Tail(evs), overflow_checks)

PlayerState == [health |-> health, score |-> score, panicked |-> FALSE]

handle_collision_events ==
    /\ CanRun("handle_collision_events")
    /\ \E overflow_checks \in BOOLEAN :
         LET st == DrainEvents(PlayerState, collision_events, overflow_checks)
         IN  /\ health' = st.health
             /\ score' = st.score
             /\ crashed' = st.panicked
    /\ collision_events' = <<>>
    /\ Done("handle_collision_events")
    /\ UNCHANGED <<input, player, pipes, physics_pipeline_active, text>>

\* ------------------------------------------------------- check_player_health
\* (a health check that never stops the pipeline)
FreezeWhenDead_Never(h, active) == active

\* if player.0.current <= 0 { physics_pipeline_active = false }
FreezeWhenDead(h, active) == IF h <= 0 THEN FALSE ELSE active

check_player_health ==
    /\ CanRun("check_player_health")
    /\ physics_pipeline_active' = FreezeWhenDead(health, physics_pipeline_active)
    /\ Done("check_player_health")
    /\ UNCHANGED <<input, player, health, score, pipes, collision_events, text,
                   crashed>>

\* -------------------------------------------------------------- update_score
Digit(d) == <<"0", "1", "2", "3", "4", "5", "6", "7", "8", "9">>[d + 1]

\* u8::to_string
RECURSIVE DecimalString(_)
DecimalString(n) ==
    IF n < 10 THEN Digit(n) ELSE DecimalString(n \div 10) \o Digit(n % 10)

update_score ==
    /\ CanRun("update_score")
    /\ text' = DecimalString(score)
    /\ Done("update_score")
    /\ UNCHANGED <<input, player, health, score, pipes,
                   physics_pipeline_active, collision_events, crashed>>

\* ------------------------------------------------------------- process_pipes
\* x <= -(SCREEN_WIDTH / 2.0) - (50.0 * 2.0)
LeftThreshold == -(SCREEN_WIDTH \div 2) - (50 * 2)
\* x = SCREEN_WIDTH / 2.0 + 70.0
RightSpawn == SCREEN_WIDTH \div 2 + PIPE_SLOT

\* (a strict comparison)
PastThreshold_Strict(p) == p.x < LeftThreshold

PastThreshold(p) == p.x <= LeftThreshold

\* (an upper pipe that keeps its y when recycled)
UpperY_KeepsOld(p, y_offset) == p.y

\* The y an upper pipe takes when it is recycled with y_offset in hand.
UpperY(p, y_offset) ==
    IF y_offset # 0
    THEN y_offset + 2 * PIPE_HALF_Y + VERTICAL_SPACE_BETWEEN_PIPES
    ELSE p.y

\* The loop of process_pipes from position i of the iteration order on;
\* y_offset is the function's local, draw[n] what fastrand returns for pipe n.
RECURSIVE PipesPass(_, _, _, _, _)
PipesPass(ps, order, i, y_offset, draw) ==
    IF i > Len(order)
    THEN ps
    ELSE LET n == order[i]
             p == ps[n]
         IN  IF ~PastThreshold(p)
             THEN PipesPass(ps, order, i + 1, y_offset, draw)
             ELSE IF p.pipe_type = "DOWN"
                  THEN PipesPass(
                         [ps EXCEPT ![n] = [p EXCEPT !.y = draw[n], !.x = RightSpawn]],
                         order, i + 1, draw[n], draw)
                  ELSE PipesPass(
                         [ps EXCEPT ![n] = [p EXCEPT !.y = UpperY(p, y_offset),
                                                     !.x = RightSpawn]],
                         order, i + 1, y_offset, draw)

\* query.iter_mut() visits the entities table by table.  The lower pipes
\* (with ActiveEvents, without Children) and the upper pipes (with Children)
\* are in two tables; a build visits either each table in spawn order, lower
\* table first, or (were they in one table) all pipes in spawn order.
IterOrders == {<<0, 2, 4, 6, 1, 3, 5, 7>>, <<0, 1, 2, 3, 4, 5, 6, 7>>}

process_pipes(offsets) ==
    /\ CanRun("process_pipes")
    /\ \E order \in IterOrders, draw \in [LowerIndex -> offsets] :
         pipes' = PipesPass(pipes, order, 1, 0, draw)
    /\ Done("process_pipes")
    /\ UNCHANGED <<input, player, health, score, physics_pipeline_active,
                   collision_events, text, crashed>>

\* ------------------------------------------------ the physics step (rapier)
\* The plugin steps in PostUpdate, after every Update system of the frame,
\* and only while physics_pipeline_active.  The pipes are kinematic bodies
\* with linvel (PIPE_SPEED, 0); the player is a dynamic body whose new
\* position and velocity, and the contacts found, are the plugin's outputs.
Scroll == (PIPE_SPEED * FrameMs) \div 1000

MovePipes(ps) == [n \in PipeIndex |-> [ps[n] EXCEPT !.x = ps[n].x + Scroll]]

Started(a, b, isSensor) == [started |-> TRUE, e1 |-> a, e2 |-> b, sensor |-> isSensor]
Stopped(a, b, isSensor) == [started |-> FALSE, e1 |-> a, e2 |-> b, sensor |-> isSensor]

EventSeqs(pool, len) == UNION {[1 .. k -> pool] : k \in 0 .. len}

RECURSIVE Passes(_)
Passes(evs) ==
    IF evs = <<>> THEN 0
    ELSE (IF IsPass(Head(evs)) THEN 1 ELSE 0) + Passes(Tail(evs))

\* A new frame: every system may run again, the input is polled.
NextFrame(keys) ==
    /\ ~crashed
    /\ ran = Systems
    /\ ran' = {}
    /\ input' \in keys
    /\ frame_start_health' = health

PhysicsStep(bodies, events, len, passes, keys) ==
    /\ NextFrame(keys)
    /\ physics_pipeline_active
    /\ pipes' = MovePipes(pipes)
    /\ player' \in bodies
    /\ \E evs \in EventSeqs(events, len) :
         /\ score + Passes(evs) <= passes
         /\ collision_events' = evs
    /\ UNCHANGED <<health, score, physics_pipeline_active, text, crashed>>

PhysicsFrozen(keys) ==
    /\ NextFrame(keys)
    /\ ~physics_pipeline_active
    /\ collision_events' = <<>>
    /\ UNCHANGED <<player, health, score, pipes, physics_pipeline_active, text,
                   crashed>>

\* ------------------------------------------------------------ input pools
AllKeys == SUBSET KeyCodes

\* Two outcomes of a step for the player's body: in free fall below the top
\* of the screen, and knocked aside and spinning at the top of the screen.
Falling == [pos |-> <<0, -40>>, linvel |-> <<0, -96>>, angvel |-> 0, rotation |-> -160]
Knocked == [pos |-> <<-12, SCREEN_HEIGHT \div 2>>, linvel |-> <<-120, 60>>, angvel |-> 3,
            rotation |-> 145]

Bodies == {Falling, Knocked}

Events == {Started("player", "pipe", FALSE),
           Started("sensor", "player", TRUE),
           Started("sensor", "pipe", TRUE),
           Stopped("sensor", "player", TRUE)}

\* ---------------------------------------------------------- specifications
\* Spec: the session.  Every schedule, every key, every body and event of the
\* pools; one gap offset; at most MaxPasses scoring passes.
LowestOffset == {-(SCREEN_HEIGHT \div 2)}

Init == setup(LowestOffset, AllKeys)

Next ==
    \/ process_player_input
    \/ handle_collision_events
    \/ check_player_health
    \/ process_pipes(LowestOffset)
    \/ update_score
    \/ PhysicsStep(Bodies, Events, MaxEvents, MaxPasses, AllKeys)
    \/ PhysicsFrozen(AllKeys)

Spec == Init /\ [][Next]_vars

\* SpecPipes: the obstacle recycler.  Every schedule, both ends of the offset
\* range, restarts and freezes; one body, no scoring pass.
EndOffsets == {o \in OffsetRange : \/ \A p \in OffsetRange : o <= p
                                   \/ \A p \in OffsetRange : o >= p}
RestartKeys == {{}, {"R"}}
LethalEvents == {Started("player", "pipe", FALSE)}

InitPipes == setup(EndOffsets, RestartKeys)

NextPipes ==
    \/ process_player_input
    \/ handle_collision_events
    \/ check_player_health
    \/ process_pipes(EndOffsets)
    \/ update_score
    \/ PhysicsStep({Falling}, LethalEvents, 1, 0, RestartKeys)
    \/ PhysicsFrozen(RestartKeys)

SpecPipes == InitPipes /\ [][NextPipes]_vars

\* SpecLong: a long session.  The systems run in the order main lists them;
\* one gap offset, one body; any number of scoring passes.
TupleOrder == <<"process_player_input", "handle_collision_events",
                "check_player_health", "process_pipes", "update_score">>

\* sys is the next system of the tuple
Turn(sys) == \E i \in 1 .. Len(TupleOrder) :
                 /\ TupleOrder[i] = sys
                 /\ ran = {TupleOrder[j] : j \in 1 .. (i - 1)}

LongEvents == {Started("sensor", "player", TRUE), Started("player", "pipe", FALSE)}

InitLong == setup(LowestOffset, RestartKeys)

NextLong ==
    \/ Turn("process_player_input") /\ process_player_input
    \/ Turn("handle_collision_events") /\ handle_collision_events
    \/ Turn("check_player_health") /\ check_player_health
    \/ Turn("process_pipes") /\ process_pipes(LowestOffset)
    \/ Turn("update_score") /\ update_score
    \/ PhysicsStep({Falling}, LongEvents, 1, U8_MAX + 1, RestartKeys)
    \/ PhysicsFrozen(RestartKeys)

SpecLong == InitLong /\ [][NextLong]_vars

\* SpecEvents: the collision handler.  The systems run in the order main lists
\* them; every shape of event between the player and another collider or
\* between two other colliders, started or stopped, sensor or solid.
Colliders == {"player", "pipe"}

AnyEvents == {[started |-> s, e1 |-> a, e2 |-> b, sensor |-> f] :
                 s \in BOOLEAN, f \in BOOLEAN,
                 a \in Colliders, b \in Colliders} \
             {ev \in [started : BOOLEAN, e1 : Colliders, e2 : Colliders,
                      sensor : BOOLEAN] : ev.e1 = "player" /\ ev.e2 = "player"}

InitEvents == setup(LowestOffset, RestartKeys)

NextEvents ==
    \/ Turn("process_player_input") /\ process_player_input
    \/ Turn("handle_collision_events") /\ handle_collision_events
    \/ Turn("check_player_health") /\ check_player_health
    \/ Turn("process_pipes") /\ process_pipes(LowestOffset)
    \/ Turn("update_score") /\ update_score
    \/ PhysicsStep({Falling}, AnyEvents, MaxEvents, MaxPasses, RestartKeys)
    \/ PhysicsFrozen(RestartKeys)

SpecEvents == InitEvents /\ [][NextEvents]_vars

\* ===================================================================== claims
\* The step in which system sys runs.
IsStep(sys) == sys \notin ran /\ sys \in ran'

\* The step in which process_player_input handles a restart edge.
RestartEdge == IsStep("process_player_input") /\ "R" \in input

\* the unread events hold a solid contact naming the player
LethalInBatch == \E i \in 1 .. Len(collision_events) : IsLethal(collision_events[i])

\* C1: a restart transition resets the score to exactly 0, whatever it was and
\* whether the physics was running or frozen.
C1_RestartZeroesScore == [][RestartEdge => score' = 0]_vars

\* C2: the score never decreases, except that a restart sets it to 0; sensor
\* increments of the 8-bit counter never lower it.
C2_ScoreMonotone == [][score' >= score \/ (RestartEdge /\ score' = 0)]_vars

\* C3: once health is 0 it stays 0 until a restart transition, and a jump edge
\* handled while health is 0 leaves the velocity unchanged (the jump block
\* does; so does the whole call unless it also handles a restart edge).
C3_DeathFinality ==
    [][/\ (health = 0 /\ health' # 0) => RestartEdge
       /\ (IsStep("process_player_input") /\ "Space" \in input /\ health = 0) =>
            /\ Jump(player, health, input).linvel = player.linvel
            /\ "R" \notin input => player'.linvel = player.linvel]_vars

\* C3 witness: the frame began with a dead player below the top of the screen,
\* Space was pressed, process_player_input has run, the velocity is not the
\* jump's.
C3_DeadJumpIgnored ==
    /\ frame_start_health = 0 /\ health = 0
    /\ input = {"Space"}
    /\ "process_player_input" \in ran
    /\ player.pos[2] < 300
    /\ player.linvel = Falling.linvel

\* C4: for every obstacle pair, at spawn and after every pass that recycles
\* it, upper.y - lower.y = 440: the recycled upper pipe takes the offset
\* drawn for its own lower partner.
C4_GapInvariant == \A n \in LowerIndex : pipes[n + 1].y - pipes[n].y = 440

\* C4 witness: process_pipes has just recycled pair 0 with the high offset
\* while pair 1 holds the low one.
C4_PairRecycled ==
    /\ "process_pipes" \in ran
    /\ pipes[0].x = RightSpawn /\ pipes[1].x = RightSpawn
    /\ pipes[0].y = -181 /\ pipes[1].y = 259
    /\ pipes[2].y = -300 /\ pipes[2].x < 0

\* C5: a pipe at or left of -300 when process_pipes runs is put at the right
\* spawn x by that pass, and no pipe is ever further left than the threshold
\* minus one frame of travel.
C5_RecycleThreshold ==
    [][/\ IsStep("process_pipes") =>
            \A n \in PipeIndex :
                pipes[n].x <= -300 => pipes'[n].x = SCREEN_WIDTH \div 2 + 70
       /\ \A n \in PipeIndex : pipes'[n].x > -300 + Scroll]_vars

\* C5 witness: pair 0, which was exactly at the threshold (pair 1 is 140
\* behind it, at -160), has been recycled.
C5_RecycledAtThreshold ==
    /\ "process_pipes" \in ran
    /\ pipes[0].x = 270 /\ pipes[1].x = 270
    /\ pipes[2].x = -160

\* C6: a solid Started event naming an alive player sets health to 0 and
\* leaves the score as it is; health is 0 after the batch that holds it; and a
\* frame that begins with the player dead and handles no restart ends with
\* the physics pipeline stopped.
C6_LethalContact ==
    [][/\ \A i \in 1 .. Len(collision_events), oc \in BOOLEAN :
            LET before == DrainEvents(PlayerState,
                                      SubSeq(collision_events, 1, i - 1), oc)
                after == OnCollisionEvent(before, collision_events[i], oc)
            IN  (/\ IsLethal(collision_events[i])
                 /\ before.health > 0 /\ ~before.panicked) =>
                    after.health = 0 /\ after.score = before.score
       /\ (IsStep("handle_collision_events") /\ LethalInBatch /\ ~crashed') =>
            health' = 0
       /\ (ran' = Systems /\ frame_start_health' = 0 /\ "R" \notin input') =>
            ~physics_pipeline_active']_vars

\* C6 witness: the frame after the one that handled the lethal contact has
\* run all its systems; the pass scored before the contact still counts.
C6_FrozenAfterLethal ==
    /\ ran = Systems
    /\ frame_start_health = 0 /\ health = 0
    /\ "R" \notin input
    /\ score = 1
    /\ ~physics_pipeline_active

\* C7: every sensor-flagged Started event naming the player adds exactly 1 to
\* the score; handle_collision_events leaves the velocity alone, and the
\* health too unless the batch holds a solid contact.
C7_SensorEventAddsOne ==
    [][IsStep("handle_collision_events") =>
        /\ score' = score + Passes(collision_events)
        /\ ~crashed'
        /\ player' = player
        /\ health' = health \/ LethalInBatch]_vars

\* C8: on a jump edge the jump block overwrites the velocity with (0, 300)
\* when health > 0 and y < 300 and leaves it unchanged otherwise; that is the
\* velocity after the call unless the call also handles a restart edge.
C8_Jump ==
    [][(IsStep("process_player_input") /\ "Space" \in input) =>
        LET jumped == Jump(player, health, input).linvel
        IN  /\ (health > 0 /\ player.pos[2] < 300) => jumped = <<0, 300>>
            /\ ~(health > 0 /\ player.pos[2] < 300) => jumped = player.linvel
            /\ "R" \notin input => player'.linvel = jumped]_vars

\* C8 witness: only process_player_input has run, with Space alone, on an
\* alive falling player: the velocity is the jump's.
C8_Jumped ==
    /\ ran = {"process_player_input"}
    /\ input = {"Space"}
    /\ health = 1
    /\ player.pos = Falling.pos
    /\ player.linvel = <<0, 300>>

\* C9: restart twice in a row gives the state restart once gives: player at
\* the origin, velocity zero, score zero, health 1, every pipe at original_x.
C9_RestartIdempotent ==
    LET once == ProcessPlayerInput(World, {"R"})
        twice == ProcessPlayerInput(once, {"R"})
    IN  /\ twice = once
        /\ once.player.pos = <<0, 0>>
        /\ once.player.linvel = <<0, 0>>
        /\ once.score = 0
        /\ once.health = 1
        /\ \A n \in PipeIndex : once.pipes[n].x = once.pipes[n].original_x

\* C10: under every schedule, a lethal contact handled in a frame stops the
\* physics pipeline in that same frame (no restart being handled in it).
C10_NoLag ==
    (ran = Systems /\ frame_start_health > 0 /\ health = 0 /\ "R" \notin input)
        => ~physics_pipeline_active


\* C11: health is 0 or 1 in every reachable state, and lethal events are
\* idempotent: handling a solid contact naming the player once more leaves
\* the health the first one left, 0.
C11_HealthTwoValued ==
    /\ health \in {0, 1}
    /\ \A i \in 1 .. Len(collision_events), oc \in BOOLEAN :
         LET before == DrainEvents(PlayerState,
                                   SubSeq(collision_events, 1, i - 1), oc)
             once == OnCollisionEvent(before, collision_events[i], oc)
             twice == OnCollisionEvent(once, collision_events[i], oc)
         IN  (IsLethal(collision_events[i]) /\ ~before.panicked) =>
                 /\ once.health = 0
                 /\ twice.health = once.health
                 /\ before.health \in {0, 1}
    /\ \A oc \in BOOLEAN :
         LET st == DrainEvents(PlayerState, collision_events, oc)
         IN  ~st.panicked => st.health = IF LethalInBatch THEN 0 ELSE health

\* C11 witness: two lethal events wait in one batch for an alive player.
C11_TwoLethalEvents ==
    /\ health = 1
    /\ Len(collision_events) = 2
    /\ IsLethal(collision_events[1]) /\ IsLethal(collision_events[2])

\* C12: a restart edge, with the physics running or frozen, puts every pipe's
\* x at its original_x and keeps its y, puts the player at the origin with
\* zero velocity, angular velocity and rotation, sets health to 1 and the
\* physics pipeline active.
C12_RestartForceReset ==
    [][RestartEdge =>
        /\ \A n \in PipeIndex :
             /\ pipes'[n].x = pipes[n].original_x
             /\ pipes'[n].y = pipes[n].y
             /\ pipes'[n].original_x = pipes[n].original_x
        /\ player'.pos = <<0, 0>>
        /\ player'.linvel = <<0, 0>>
        /\ player'.angvel = 0
        /\ player'.rotation = 0
        /\ health' = 1
        /\ physics_pipeline_active']_vars

\* C12 witness: a frame that began with the player dead has handled the
\* restart edge: the player is alive at the origin and the physics runs.
C12_RestartedFromDeath ==
    /\ frame_start_health = 0
    /\ "R" \in input
    /\ "process_player_input" \in ran
    /\ "check_player_health" \in ran
    /\ health = 1
    /\ physics_pipeline_active
    /\ player = SpawnPlayer
    /\ \A n \in PipeIndex : pipes[n].x = pipes[n].original_x


\* C13: a Started event, sensor or solid, in which neither participant is the
\* player, and every Stopped event, leaves health and score as they were.
C13_OtherEventsDiscarded ==
    \A i \in 1 .. Len(collision_events), oc \in BOOLEAN :
        LET e == collision_events[i]
            before == DrainEvents(PlayerState,
                                  SubSeq(collision_events, 1, i - 1), oc)
            after == OnCollisionEvent(before, e, oc)
        IN  (~e.started \/ (e.e1 # "player" /\ e.e2 # "player")) =>
                /\ after.health = before.health
                /\ after.score = before.score
                /\ after.panicked = before.panicked

\* C13 witness: an alive player with one point is about to handle a batch of
\* a solid contact between two other colliders and a stopped solid contact
\* of the player.
C13_OthersInBatch ==
    /\ collision_events = <<Started("pipe", "pipe", FALSE),
                            Stopped("player", "pipe", FALSE)>>
    /\ ran = {"process_player_input"}
    /\ health = 1
    /\ score = 1
    /\ physics_pipeline_active


\* C14: every offset drawn for a lower pipe, at spawn or at a recycle, lies
\* in [-300, -180], so the y of every lower pipe is in that range in every
\* reachable state.
C14_LowerOffsetRange ==
    \A n \in LowerIndex : pipes[n].y >= -300 /\ pipes[n].y <= -180

\* C14 witness: the second pair has been recycled with the highest offset
\* while the first, recycled before it, has the lowest.
C14_RecycledAtBothEnds ==
    /\ "process_pipes" \in ran
    /\ pipes[2].x = RightSpawn
    /\ pipes[2].y = -181
    /\ pipes[0].x < RightSpawn
    /\ pipes[0].x # pipes[0].original_x
    /\ pipes[0].y = -300


\* C15: at the end of every tick the score text is the decimal string of the
\* current score, also in a tick in which a sensor event added to the score.
C15_TextShowsScore ==
    (ran = Systems /\ ~crashed) => text = DecimalString(score)


\* C16: in every reachable state the lower and the upper pipe of each pair
\* have the same x.
C16_PairSynchrony ==
    \A n \in LowerIndex : pipes[n].x = pipes[n + 1].x

\* C16 witness: the last pair has been recycled to the right spawn x, both
\* pipes together, after the pairs before it.
C16_LastPairRecycled ==
    /\ "process_pipes" \in ran
    /\ pipes[6].x = RightSpawn /\ pipes[7].x = RightSpawn
    /\ pipes[0].x < RightSpawn /\ pipes[1].x = pipes[0].x
    /\ pipes[0].x # pipes[0].original_x

\* C17: whenever physics stepping is inactive the health is 0, at the end of
\* a tick and between the systems of a tick, whatever their order.
C17_FrozenOnlyWhenDead ==
    ~physics_pipeline_active => health = 0

\* C17 witness: a frame that began with the player alive ends with the
\* player dead and the physics frozen.
C17_FrozeThisFrame ==
    /\ ran = Systems
    /\ frame_start_health = 1
    /\ health = 0
    /\ ~physics_pipeline_active
    /\ score = 0


\* C18: the increment of the score is never executed with the score at 255:
\* no sensor event naming the player is handled at that score, so the u8
\* neither wraps nor aborts the program.
C18_NoIncrementAtMax ==
    /\ ~crashed
    /\ \A i \in 1 .. Len(collision_events), oc \in BOOLEAN :
         LET before == DrainEvents(PlayerState,
                                   SubSeq(collision_events, 1, i - 1), oc)
         IN  (IsPass(collision_events[i]) /\ ~before.panicked) =>
                 before.score < 255


\* The horizontal distance between the pairs of lower pipes m and n.
PairDistance(m, n) ==
    IF pipes[m].x >= pipes[n].x THEN pipes[m].x - pipes[n].x
    ELSE pipes[n].x - pipes[m].x

\* C19 as stated: in every reachable state any two distinct pairs are at
\* least 140 apart horizontally.
C19_PairsAtLeast140Apart ==
    \A m \in LowerIndex, n \in LowerIndex :
        m # n => PairDistance(m, n) >= 140

\* C19 amended: any two distinct pairs are more than 140 minus one tick's
\* scroll apart; with a scroll below 140 per tick at most one pair is at or
\* beyond the recycle threshold, so a pass recycles at most one pair, and no
\* pair shares its x with another.
C19_PairSeparation ==
    /\ \A m \in LowerIndex, n \in LowerIndex :
         m # n => PairDistance(m, n) > 140 + Scroll
    /\ (-Scroll < 140) =>
         /\ Cardinality({n \in LowerIndex : PastThreshold(pipes[n])}) <= 1
         /\ \A m \in LowerIndex, n \in LowerIndex :
              m # n => pipes[m].x # pipes[n].x

\* C19 witness: the second and the third pair have been recycled in
\* consecutive frames and stand one tick's scroll apart, closer than 140.
C19_RecycledOneTickApart ==
    /\ "process_pipes" \in ran
    /\ pipes[4].x = RightSpawn
    /\ pipes[2].x = RightSpawn + Scroll
    /\ PairDistance(2, 4) < 140

====
